---------------------------- MODULE Spec2Model ----------------------------
(***************************************************************************)
(* A model of ldrb/ldrb.py: the rule-based fibre generation core.          *)
(*                                                                         *)
(*   compute_fiber_sheet_system  the entry action, one action per loop     *)
(*                               iteration, and the return                 *)
(*   system_at_dof, bislerp      operators, also called directly           *)
(*   standard_dofs               operator                                  *)
(*                                                                         *)
(* Scalars (lv, rv, epi, tolerances) are fixed-point integers in units of  *)
(* 1e-7.  A frame is a record: None, an exactly representable rotation     *)
(* matrix, or a term naming the numerical routine and its arguments        *)
(* (axis, orient, the both-present branch of bislerp) where the value is   *)
(* not representable in integers.  Gradient slices are terms naming the    *)
(* array and the indices read.                                             *)
(***************************************************************************)
EXTENDS Integers, Sequences, FiniteSets, TLC

VARIABLES
    pc,      \* compute_fiber_sheet_system: "idle", "start", "loop", "done", "error"
    args,    \* its shape arguments: lengths of the arrays, what is supplied
    opts,    \* the eight optional angle arguments, {} for None, {v} for v
    angles,  \* the twelve angles after lines 283-291
    dofs,    \* the iterable the loop runs over
    pos,     \* the position of the loop in dofs (1-based, next to be taken)
    f0,      \* output array fiber
    s0,      \* output array sheet
    n0,      \* output array sheet_normal
    cur,     \* the locals of the last loop iteration
    absent,  \* positions of dofs whose frame was None (the `continue` branch)
    sd,      \* a direct call of system_at_dof: arguments and result
    bs,      \* a direct call of bislerp: arguments and result
    ab,      \* apex_to_base: the solver retry loop
    sl       \* scalar_laplacians: the markers and the search for the RV value

vars == <<pc, args, opts, angles, dofs, pos, f0, s0, n0, cur, absent, sd, bs, ab, sl>>

---------------------------------------------------------------------------
(* Bounds of the model *)

\* largest number of sample points, len(lv_scalar)
MaxN == 4

\* largest number of input arrays whose length differs from the expected one
MaxMismatch == 1

---------------------------------------------------------------------------
(* Program constants *)

\* 1.0 in units of 1e-7
One == 10 * 1000 * 1000

\* tol = 1e-3 of compute_fiber_sheet_system, in units of 1e-7
tol_classify == 10000

\* tol = 1e-7, the default of system_at_dof, in units of 1e-7
tol_default == 1

alpha_endo_lv_default == 40
alpha_epi_lv_default == -50
beta_endo_lv_default == -65
beta_epi_lv_default == 25

---------------------------------------------------------------------------
(* Values *)

None == [kind |-> "None"]

\* an element of an output array that was never assigned (np.zeros_like)
Zero == << >>

Min2(a, b) == IF a <= b THEN a ELSE b

\* scalar values: 0, 1e-7, 5e-5, 1e-3, 0.5
Vals == {0, tol_default, 500, tol_classify, One \div 2}

\* scalar values of a field that is 0 or 0.5 at every sample point
CoarseVals == {0, One \div 2}

---------------------------------------------------------------------------
(* standard_dofs *)

\* np.arange(start, stop, step) for step > 0, as a 1-based sequence
Arange(start, stop, step) ==
    IF stop <= start THEN << >>
    ELSE [k \in 1..((stop - start + step - 1) \div step) |-> start + (k - 1) * step]

\* zip of four sequences: as long as the shortest
Zip4(a, b, c, d) ==
    [k \in 1..Min2(Min2(Len(a), Len(b)), Min2(Len(c), Len(d))) |->
        <<a[k], b[k], c[k], d[k]>>]

standard_dofs(n) ==
    LET x_dofs == Arange(0, 3 * n, n)
        y_dofs == Arange(1, 3 * n, n)
        z_dofs == Arange(2, 3 * n, n)
        scalar_dofs == Arange(0, n, 1)
    IN  Zip4(x_dofs, y_dofs, z_dofs, scalar_dofs)

\* dofs_from_function_space on one process that owns all n scalar dofs:
\* the ownership range of the vector space is 3 * n, dim = 3
dofs_from_function_space(n) ==
    LET x_dofs == Arange(0, 3 * n, 3)
        y_dofs == Arange(1, 3 * n, 3)
        z_dofs == Arange(2, 3 * n, 3)
        scalar_dofs == Arange(0, n, 1)
    IN  Zip4(x_dofs, y_dofs, z_dofs, scalar_dofs)

---------------------------------------------------------------------------
(* Quaternions and rotation matrices                                       *)
(*                                                                         *)
(* A quaternion is <<w, x, y, z>> holding QNorm times the components of a  *)
(* unit quaternion, and a rotation matrix is a tuple of three rows holding *)
(* QNorm^2 times its entries, so that both are integer for the 24 Hurwitz  *)
(* units (+-1, +-i, +-j, +-k and (+-1 +-i +-j +-k)/2, the rotations of the *)
(* tetrahedral group) and for quaternions with components in fifths such   *)
(* as (3 + 4i)/5, whose rotations are in general position.                 *)

QNorm == 2 * 5

Abs(a) == IF a < 0 THEN -a ELSE a

\* the root of a square
Isqrt(n) == CHOOSE r \in 0..QNorm : r * r = n

qneg(q) == <<-q[1], -q[2], -q[3], -q[4]>>

\* Hamilton product p * q of a scaled quaternion p and a unit q
qmul(p, q) ==
    << p[1] * q[1] - p[2] * q[2] - p[3] * q[3] - p[4] * q[4],
       p[1] * q[2] + p[2] * q[1] + p[3] * q[4] - p[4] * q[3],
       p[1] * q[3] - p[2] * q[4] + p[3] * q[1] + p[4] * q[2],
       p[1] * q[4] + p[2] * q[3] - p[3] * q[2] + p[4] * q[1] >>

\* quaternion.as_rotation_matrix of a scaled unit quaternion
as_rotation_matrix(q) ==
    LET w == q[1]  x == q[2]  y == q[3]  z == q[4]
        n == w * w + x * x + y * y + z * z
    IN  << << n - 2 * (y * y + z * z), 2 * (x * y - w * z), 2 * (x * z + w * y) >>,
           << 2 * (x * y + w * z), n - 2 * (x * x + z * z), 2 * (y * z - w * x) >>,
           << 2 * (x * z - w * y), 2 * (y * z + w * x), n - 2 * (x * x + y * y) >> >>

\* quaternion.from_rotation_matrix of an orthogonal matrix, up to the sign:
\* 4 w^2 = 1 + trace; for w # 0 the vector part is the skew part over 4 w,
\* for w = 0 (a rotation by 180 degrees) 2 x^2 = 1 + M11, and so on.
\* The rotation fixes the quaternion only up to its sign; sgn is the sign
\* the eigenvector routine of the library happens to return.
from_rotation_matrix(M, sgn) ==
    LET one == QNorm * QNorm
        w == Isqrt((one + M[1][1] + M[2][2] + M[3][3]) \div 4)
        x == Isqrt((one + M[1][1]) \div 2)
        y == Isqrt((one + M[2][2]) \div 2)
        q == IF w # 0 THEN
                 <<w, (M[3][2] - M[2][3]) \div (4 * w), (M[1][3] - M[3][1]) \div (4 * w),
                   (M[2][1] - M[1][2]) \div (4 * w)>>
             ELSE IF x # 0 THEN <<0, x, M[1][2] \div (2 * x), M[1][3] \div (2 * x)>>
             ELSE IF y # 0 THEN <<0, 0, y, M[2][3] \div (2 * y)>>
             ELSE <<0, 0, 0, QNorm>>
    IN  IF sgn = 1 THEN q ELSE qneg(q)

quat_i == <<0, 1, 0, 0>>
quat_j == <<0, 0, 1, 0>>
quat_k == <<0, 0, 0, 1>>

\* quat_array with the units multiplied from the left
quat_array_left(qa) ==
    << qa, qneg(qa),
       qmul(quat_i, qa), qmul(quat_i, qneg(qa)),
       qmul(quat_j, qa), qmul(quat_j, qneg(qa)),
       qmul(quat_k, qa), qmul(quat_k, qneg(qa)) >>

\* the list quat_array of bislerp
quat_array(qa) ==
    << qa, qneg(qa),
       qmul(qa, quat_i), qmul(qneg(qa), quat_i),
       qmul(qa, quat_j), qmul(qneg(qa), quat_j),
       qmul(qa, quat_k), qmul(qneg(qa), quat_k) >>

\* dot of bislerp on scaled quaternions: QNorm^2 times the dot product
dot(qi, qj) == qi[2] * qj[2] + qi[3] * qj[3] + qi[4] * qj[4] + qi[1] * qj[1]

\* np.argmax: the first index (1-based here) that holds the maximum
argmax(arr) ==
    CHOOSE i \in 1..Len(arr) :
        /\ \A j \in 1..Len(arr) : arr[j] <= arr[i]
        /\ \A j \in 1..(i - 1) : arr[j] < arr[i]

\* max_dot > 1 - tol with tol = 1e-12, on QNorm^2 times the dot product: an
\* integer exceeds QNorm^2 (1 - 1e-12) exactly when it is at least QNorm^2
exceeds_one_minus_tol(max_dot) == max_dot >= QNorm * QNorm

\* slerp_matrix with the two ends exchanged: qb at t = 0, qm at t = 1
slerp_matrix_swapped(qm, qb, t) ==
    LET qe == IF dot(qm, qb) >= 0 THEN qb ELSE qneg(qb)
    IN  IF t[1] = 0 THEN [kind |-> "matrix", M |-> as_rotation_matrix(qe)]
        ELSE IF t[1] = t[2] THEN [kind |-> "matrix", M |-> as_rotation_matrix(qm)]
        ELSE [kind |-> "slerp", qm |-> qm, qb |-> qe, t |-> t]

\* quaternion.slerp(qm, qb, 0, 1, t) followed by normalized() and
\* as_rotation_matrix, for t = <<num, den>>.  The library interpolates from
\* qm to qb when their dot product is >= 0 and to -qb otherwise
\* ((+-qb / qm)^t * qm): qm at t = 0 and +-qb at t = 1.  In between the
\* result is not an integer matrix and stays a term.
slerp_matrix(qm, qb, t) ==
    LET qe == IF dot(qm, qb) >= 0 THEN qb ELSE qneg(qb)
    IN  IF t[1] = 0 THEN [kind |-> "matrix", M |-> as_rotation_matrix(qm)]
        ELSE IF t[1] = t[2] THEN [kind |-> "matrix", M |-> as_rotation_matrix(qe)]
        ELSE [kind |-> "slerp", qm |-> qm, qb |-> qe, t |-> t]

\* the representative qm that bislerp selects
select_qm(qa, qb) ==
    LET arr == quat_array(qa)
        dot_arr == [i \in 1..Len(arr) |-> Abs(dot(arr[i], qb))]
    IN  arr[argmax(dot_arr)]

\* bislerp, lines 124-157: both frames present
bislerp_both(Qa, Qb, t) ==
    IF Qa.kind = "matrix" /\ Qb.kind = "matrix" THEN
        LET qa == from_rotation_matrix(Qa.M, bs.sa)
            qb == from_rotation_matrix(Qb.M, bs.sb)
            qm == select_qm(qa, qb)
            max_dot == Abs(dot(qm, qb))
        IN  IF exceeds_one_minus_tol(max_dot) THEN Qb
            ELSE slerp_matrix(qm, qb, t)
    ELSE [kind |-> "bislerp", Qa |-> Qa, Qb |-> Qb, t |-> t]

\* bislerp_run returning None as soon as one frame is None
bislerp_run_needs_both(Qa, Qb, t) ==
    IF Qa = None \/ Qb = None THEN [ret |-> None, converted |-> FALSE]
    ELSE [ret |-> bislerp_both(Qa, Qb, t), converted |-> TRUE]

\* bislerp_run without the early return for Qb = None
bislerp_run_no_qb_check(Qa, Qb, t) ==
    IF Qa = None /\ Qb = None THEN [ret |-> None, converted |-> FALSE]
    ELSE IF Qa = None THEN [ret |-> Qb, converted |-> FALSE]
    ELSE [ret |-> bislerp_both(Qa, Qb, t), converted |-> TRUE]

\* bislerp with what it did: ret is the value returned, converted tells
\* whether the call went past the early returns of lines 117-122 to the
\* quaternion conversion and the interpolation
bislerp_run(Qa, Qb, t) ==
    IF Qa = None /\ Qb = None THEN [ret |-> None, converted |-> FALSE]
    ELSE IF Qa = None THEN [ret |-> Qb, converted |-> FALSE]
    ELSE IF Qb = None THEN [ret |-> Qa, converted |-> FALSE]
    ELSE [ret |-> bislerp_both(Qa, Qb, t), converted |-> TRUE]

bislerp(Qa, Qb, t) == bislerp_run(Qa, Qb, t).ret

\* the 24 Hurwitz units, scaled
HurwitzUnits ==
    {<<10, 0, 0, 0>>, <<-10, 0, 0, 0>>, <<0, 10, 0, 0>>, <<0, -10, 0, 0>>,
     <<0, 0, 10, 0>>, <<0, 0, -10, 0>>, <<0, 0, 0, 10>>, <<0, 0, 0, -10>>}
    \cup {<<a, b, c, d>> : a \in {-5, 5}, b \in {-5, 5}, c \in {-5, 5}, d \in {-5, 5}}

\* unit quaternions with components in fifths, scaled: rotations about an
\* axis by an angle that is no multiple of 90 or 120 degrees, and a rotation
\* by 180 degrees about an oblique axis
FifthUnits ==
    {<<6, 8, 0, 0>>, <<8, 0, 0, 6>>, <<2, 4, 4, 8>>, <<0, 6, 8, 0>>}

\* the rotation matrices with an exactly representable quaternion
Rotations == {as_rotation_matrix(q) : q \in HurwitzUnits \cup FifthUnits}

MatrixFrames == {[kind |-> "matrix", M |-> M] : M \in Rotations}

---------------------------------------------------------------------------
(* axis, orient, system_at_dof *)

\* axis(u, v): the orthonormal frame the root solve returns for u and v
axis(u, v) == [kind |-> "axis", u |-> u, v |-> v]

\* orient(Q, alpha, beta): Q . A(alpha) . B(beta)
orient(Q, alpha, beta) == [kind |-> "orient", Q |-> Q, alpha |-> alpha, beta |-> beta]

\* -1 * grad
neg(g) == [g EXCEPT !.neg = ~g.neg]

\* depth of system_at_dof as a fraction <<num, den>>
depth_of(lv, rv, tol) ==
    IF lv + rv < tol THEN <<1, 2>> ELSE <<rv, lv + rv>>

\* the lambdas of system_at_dof at d = <<num, den>>, as fractions
alpha_s(alpha_endo, d) == <<alpha_endo * (d[2] - d[1]) - alpha_endo * d[1], d[2]>>
alpha_w(alpha_endo, alpha_epi, d) == <<alpha_endo * (d[2] - d[1]) + alpha_epi * d[1], d[2]>>
beta_s(beta_endo, d) == <<beta_endo * (d[2] - d[1]) - beta_endo * d[1], d[2]>>
beta_w(beta_endo, beta_epi, d) == <<beta_endo * (d[2] - d[1]) + beta_epi * d[1], d[2]>>

Q_lv_of(lv, rv, grad_lv, grad_ab, alpha_endo, beta_endo, tol) ==
    LET depth == depth_of(lv, rv, tol)
    IN  IF lv > tol
        THEN orient(axis(grad_ab, neg(grad_lv)), alpha_s(alpha_endo, depth), beta_s(beta_endo, depth))
        ELSE None

\* Q_rv_of without the guard rv > tol: the RV frame is built at every point
Q_rv_of_unguarded(lv, rv, grad_rv, grad_ab, alpha_endo, beta_endo, tol) ==
    LET depth == depth_of(lv, rv, tol)
    IN  orient(axis(grad_ab, grad_rv), alpha_s(alpha_endo, depth), beta_s(beta_endo, depth))

Q_rv_of(lv, rv, grad_rv, grad_ab, alpha_endo, beta_endo, tol) ==
    LET depth == depth_of(lv, rv, tol)
    IN  IF rv > tol
        THEN orient(axis(grad_ab, grad_rv), alpha_s(alpha_endo, depth), beta_s(beta_endo, depth))
        ELSE None

Q_epi_of(epi, grad_epi, grad_ab, alpha_endo, alpha_epi, beta_endo, beta_epi, tol) ==
    IF epi > tol
    THEN orient(axis(grad_ab, grad_epi),
                alpha_w(alpha_endo, alpha_epi, <<epi, One>>),
                beta_w(beta_endo, beta_epi, <<epi, One>>))
    ELSE None

system_at_dof(lv, rv, epi, grad_lv, grad_rv, grad_epi, grad_ab, alpha_endo, alpha_epi, beta_endo, beta_epi, tol) ==
    LET depth == depth_of(lv, rv, tol)
        Q_lv == Q_lv_of(lv, rv, grad_lv, grad_ab, alpha_endo, beta_endo, tol)
        Q_rv == Q_rv_of(lv, rv, grad_rv, grad_ab, alpha_endo, beta_endo, tol)
        Q_endo == bislerp(Q_lv, Q_rv, depth)
        Q_epi == Q_epi_of(epi, grad_epi, grad_ab, alpha_endo, alpha_epi, beta_endo, beta_epi, tol)
        Q_fiber == bislerp(Q_endo, Q_epi, <<epi, One>>)
    IN  Q_fiber

---------------------------------------------------------------------------
(* compute_fiber_sheet_system *)

OptKeys == {"alpha_endo_rv", "alpha_epi_rv", "alpha_endo_sept", "alpha_epi_sept",
            "beta_endo_rv", "beta_epi_rv", "beta_endo_sept", "beta_epi_sept"}

\* the LV angles of a call: the defaults of the signature
LvAngles == [alpha_endo_lv |-> alpha_endo_lv_default, alpha_epi_lv |-> alpha_epi_lv_default,
             beta_endo_lv |-> beta_endo_lv_default, beta_epi_lv |-> beta_epi_lv_default]

\* Python's `x or y` for an optional number x ({} is None, {v} is v):
\* None and 0 are falsy
PyOr(x, y) == IF x = {} \/ x = {0} THEN y ELSE CHOOSE v \in x : TRUE

\* lines 283-291
resolve_angles(o, lvang) ==
    [alpha_endo_lv   |-> lvang.alpha_endo_lv,
     alpha_epi_lv    |-> lvang.alpha_epi_lv,
     beta_endo_lv    |-> lvang.beta_endo_lv,
     beta_epi_lv     |-> lvang.beta_epi_lv,
     alpha_endo_rv   |-> PyOr(o.alpha_endo_rv, lvang.alpha_endo_lv),
     alpha_epi_rv    |-> PyOr(o.alpha_epi_rv, lvang.alpha_epi_lv),
     alpha_endo_sept |-> PyOr(o.alpha_endo_sept, lvang.alpha_endo_lv),
     alpha_epi_sept  |-> PyOr(o.alpha_epi_sept, lvang.alpha_epi_lv),
     beta_endo_rv    |-> PyOr(o.beta_endo_rv, lvang.beta_endo_lv),
     beta_epi_rv     |-> PyOr(o.beta_epi_rv, lvang.beta_epi_lv),
     beta_endo_sept  |-> PyOr(o.beta_endo_sept, lvang.beta_epi_lv),
     beta_epi_sept   |-> PyOr(o.beta_epi_sept, lvang.beta_epi_lv)]

\* the three angle sets of a resolved record
lv_set(a) == [alpha_endo |-> a.alpha_endo_lv, beta_endo |-> a.beta_endo_lv,
              alpha_epi |-> a.alpha_epi_lv, beta_epi |-> a.beta_epi_lv]
rv_set(a) == [alpha_endo |-> a.alpha_endo_rv, beta_endo |-> a.beta_endo_rv,
              alpha_epi |-> a.alpha_epi_rv, beta_epi |-> a.beta_epi_rv]
sept_set(a) == [alpha_endo |-> a.alpha_endo_sept, beta_endo |-> a.beta_endo_sept,
                alpha_epi |-> a.alpha_epi_sept, beta_epi |-> a.beta_epi_sept]

\* select_angles with the comparisons of the RV branch and of the LV branch
\* made inclusive
select_angles_inclusive(lv, rv, a, tol) ==
    IF lv > tol /\ rv <= tol THEN lv_set(a)
    ELSE IF lv <= tol /\ rv > tol THEN rv_set(a)
    ELSE IF lv > tol /\ rv > tol THEN sept_set(a)
    ELSE lv_set(a)

\* lines 356-389: the if / elif / elif / else over lv, rv and tol
select_angles(lv, rv, a, tol) ==
    IF lv > tol /\ rv < tol THEN lv_set(a)
    ELSE IF lv < tol /\ rv > tol THEN rv_set(a)
    ELSE IF lv > tol /\ rv > tol THEN sept_set(a)
    ELSE lv_set(a)

\* the call of system_at_dof without tol: the default of its signature
tol_passed_default == tol_default

\* the tolerance compute_fiber_sheet_system passes to system_at_dof (line 403)
tol_passed == tol_classify

\* the lengths of the arrays of a call
len_lv_scalar(a) == a.n
len_lv_gradient(a) == 3 * a.n + a.delta.lv_gradient
len_epi_scalar(a) == a.n + a.delta.epi_scalar
len_epi_gradient(a) == 3 * a.n + a.delta.epi_gradient
len_apex_gradient(a) == 3 * a.n + a.delta.apex_gradient
\* rv_scalar = np.zeros_like(lv_scalar), rv_gradient = np.zeros_like(lv_gradient)
\* when not supplied (lines 278-281)
len_rv_scalar(a) == IF a.rv THEN a.n + a.delta.rv_scalar ELSE len_lv_scalar(a)
len_rv_gradient(a) == IF a.rv THEN 3 * a.n + a.delta.rv_gradient ELSE len_lv_gradient(a)

\* an index tuple of dofs can be read from every input array (lines 344-350);
\* numpy raises IndexError otherwise
in_bounds(a, d) ==
    LET top == IF d[1] >= d[2] /\ d[1] >= d[3] THEN d[1]
               ELSE IF d[2] >= d[3] THEN d[2] ELSE d[3]
    IN  /\ d[4] < len_lv_scalar(a)
        /\ d[4] < len_rv_scalar(a)
        /\ d[4] < len_epi_scalar(a)
        /\ top < len_lv_gradient(a)
        /\ top < len_rv_gradient(a)
        /\ top < len_epi_gradient(a)
        /\ top < len_apex_gradient(a)

\* arr[dof] for a gradient array: the slice, named by its place
grad(name, d, isZero) ==
    [arr |-> name, dof |-> <<d[1], d[2], d[3]>>, neg |-> FALSE, zero |-> isZero]

\* arr[dof] = Q_fiber.T[col] (lines 408-410): the three entries of column col
assign(arr, d, col) ==
    [i \in DOMAIN arr |->
        IF i = d[1] THEN <<d[4], col, 0>>
        ELSE IF i = d[2] THEN <<d[4], col, 1>>
        ELSE IF i = d[3] THEN <<d[4], col, 2>>
        ELSE arr[i]]

\* the call of system_at_dof of lines 391-404
Q_fiber_of(lv, rv, epi, d, a, rvSupplied) ==
    LET sel == select_angles(lv, rv, a, tol_classify)
    IN  system_at_dof(lv, rv, epi,
                      grad("lv_gradient", d, FALSE), grad("rv_gradient", d, ~rvSupplied),
                      grad("epi_gradient", d, FALSE), grad("apex_gradient", d, FALSE),
                      sel.alpha_endo, sel.alpha_epi, sel.beta_endo, sel.beta_epi,
                      tol_passed)

NoCur == [s |-> -1]
NoCall == [done |-> FALSE]

\* no direct call of bislerp; sa and sb are the signs from_rotation_matrix
\* returns for Qa and for Qb
NoBislerp == [done |-> FALSE, sa |-> 1, sb |-> 1]

\* apex_to_base is not running, scalar_laplacians is not running
NoSolve == [pc |-> "idle"]
NoMarkers == [pc |-> "idle"]

Idle == /\ pc = "idle" /\ args = << >> /\ opts = << >> /\ angles = << >>
        /\ dofs = << >> /\ pos = 0 /\ f0 = << >> /\ s0 = << >> /\ n0 = << >>
        /\ cur = NoCur /\ absent = {}

\* lines 276-338: the defaults, the angle resolution, the output arrays
Enter ==
    /\ pc = "start"
    /\ dofs' = IF args.dofs = "None" THEN standard_dofs(len_lv_scalar(args))
               ELSE dofs_from_function_space(args.n)
    /\ angles' = resolve_angles(opts, LvAngles)
    /\ f0' = [i \in 0..(len_lv_gradient(args) - 1) |-> Zero]
    /\ s0' = [i \in 0..(len_lv_gradient(args) - 1) |-> Zero]
    /\ n0' = [i \in 0..(len_lv_gradient(args) - 1) |-> Zero]
    /\ pos' = 1
    /\ pc' = "loop"
    /\ UNCHANGED <<args, opts, cur, absent, sd, bs, ab, sl>>

\* lines 340-410: one iteration of the loop.  The values the iteration reads
\* from the scalar arrays are drawn here, among the values args.vals the
\* arrays of the call hold: every scalar index is read by one iteration only.
Iterate ==
    /\ pc = "loop"
    /\ pos <= Len(dofs)
    /\ LET d == dofs[pos]
       IN  IF ~in_bounds(args, d)
           THEN /\ pc' = "error"
                /\ UNCHANGED <<pos, f0, s0, n0, cur, absent>>
           ELSE \E lv \in args.vals, rv \in (IF args.rv THEN args.vals ELSE {0}),
                   epi \in args.vals :
                  LET sel == select_angles(lv, rv, angles, tol_classify)
                      Q_fiber == Q_fiber_of(lv, rv, epi, d, angles, args.rv)
                  IN  /\ cur' = [s |-> d[4], dof |-> <<d[1], d[2], d[3]>>,
                                 lv |-> lv, rv |-> rv, epi |-> epi,
                                 sel |-> sel, Q_fiber |-> Q_fiber]
                      /\ IF Q_fiber = None
                         THEN /\ absent' = absent \cup {pos}
                              /\ UNCHANGED <<f0, s0, n0>>
                         ELSE /\ f0' = assign(f0, d, 0)
                              /\ s0' = assign(s0, d, 1)
                              /\ n0' = assign(n0, d, 2)
                              /\ UNCHANGED absent
                      /\ pos' = pos + 1
                      /\ pc' = "loop"
    /\ UNCHANGED <<args, opts, angles, dofs, sd, bs, ab, sl>>

\* line 412
Return ==
    /\ pc = "loop"
    /\ pos > Len(dofs)
    /\ pc' = "done"
    /\ UNCHANGED <<args, opts, angles, dofs, pos, f0, s0, n0, cur, absent, sd, bs, ab, sl>>

DeltaKeys == {"lv_gradient", "epi_scalar", "epi_gradient", "apex_gradient",
              "rv_scalar", "rv_gradient"}

\* the calls of the model: n sample points, the rv fields supplied or not,
\* dofs left out or taken from dofs_from_function_space, at most
\* MaxMismatch arrays one element shorter or longer than the rest, and the
\* values the scalar arrays hold
Calls ==
    {a \in [n : 1..MaxN, rv : BOOLEAN, dofs : {"None", "function_space"},
            delta : [DeltaKeys -> {-1, 0, 1}], vals : {CoarseVals}] :
        /\ Cardinality({k \in DeltaKeys : a.delta[k] # 0}) <= MaxMismatch
        /\ ~a.rv => (a.delta.rv_scalar = 0 /\ a.delta.rv_gradient = 0)}

NoOpts == [k \in OptKeys |-> {}]

\* all eight supplied, each with a value of its own
AllOpts == [alpha_endo_rv |-> {11}, alpha_epi_rv |-> {12}, alpha_endo_sept |-> {13},
            alpha_epi_sept |-> {14}, beta_endo_rv |-> {15}, beta_epi_rv |-> {16},
            beta_endo_sept |-> {17}, beta_epi_sept |-> {18}]

Init ==
    /\ pc = "start"
    /\ args \in Calls
    /\ opts \in {NoOpts, AllOpts}
    /\ angles = << >>
    /\ dofs = << >>
    /\ pos = 0
    /\ f0 = << >> /\ s0 = << >> /\ n0 = << >>
    /\ cur = NoCur
    /\ absent = {}
    /\ sd = NoCall
    /\ bs = NoBislerp
    /\ ab = NoSolve
    /\ sl = NoMarkers

Next == Enter \/ Iterate \/ Return

Spec == Init /\ [][Next]_vars

---------------------------------------------------------------------------
(* compute_fiber_sheet_system on well-formed arrays that hold the scalar   *)
(* values of Vals, the tolerances among them                               *)

\* largest number of sample points of these calls
MaxFineN == 2

FineCalls ==
    [n : 1..MaxFineN, rv : BOOLEAN, dofs : {"None", "function_space"},
     delta : {[k \in DeltaKeys |-> 0]}, vals : {Vals}]

InitPoint ==
    /\ pc = "start"
    /\ args \in FineCalls
    /\ opts \in {NoOpts, AllOpts}
    /\ angles = << >> /\ dofs = << >> /\ pos = 0
    /\ f0 = << >> /\ s0 = << >> /\ n0 = << >>
    /\ cur = NoCur /\ absent = {}
    /\ sd = NoCall /\ bs = NoBislerp /\ ab = NoSolve /\ sl = NoMarkers

SpecPoint == InitPoint /\ [][Next]_vars

---------------------------------------------------------------------------
(* compute_fiber_sheet_system on one sample point, with every choice of    *)
(* the eight optional angles among None, 0 and 10                          *)

OptValues == {{}, {0}, {10}}

InitAngles ==
    /\ pc = "start"
    /\ args \in [n : {1}, rv : {TRUE}, dofs : {"None", "function_space"},
                  delta : {[k \in DeltaKeys |-> 0]}, vals : {CoarseVals}]
    /\ opts \in [OptKeys -> OptValues]
    /\ angles = << >> /\ dofs = << >> /\ pos = 0
    /\ f0 = << >> /\ s0 = << >> /\ n0 = << >>
    /\ cur = NoCur /\ absent = {}
    /\ sd = NoCall /\ bs = NoBislerp /\ ab = NoSolve /\ sl = NoMarkers

SpecAngles == InitAngles /\ [][Next]_vars

---------------------------------------------------------------------------
(* system_at_dof called directly *)

InitDof ==
    /\ Idle
    /\ ab = NoSolve /\ sl = NoMarkers
    /\ sd \in [done : {FALSE}, lv : Vals, rv : Vals, epi : Vals,
                tol : {tol_default, tol_classify}]
    /\ bs = NoBislerp

\* the gradients of a direct call
g_lv == grad("grad_lv", <<0, 1, 2, 0>>, FALSE)
g_rv == grad("grad_rv", <<0, 1, 2, 0>>, FALSE)
g_epi == grad("grad_epi", <<0, 1, 2, 0>>, FALSE)
g_ab == grad("grad_ab", <<0, 1, 2, 0>>, FALSE)

CallSystemAtDof ==
    /\ sd.done = FALSE
    /\ sd' = [done |-> TRUE, lv |-> sd.lv, rv |-> sd.rv, epi |-> sd.epi, tol |-> sd.tol,
              ret |-> system_at_dof(sd.lv, sd.rv, sd.epi, g_lv, g_rv, g_epi, g_ab,
                                    LvAngles.alpha_endo_lv, LvAngles.alpha_epi_lv,
                                    LvAngles.beta_endo_lv, LvAngles.beta_epi_lv, sd.tol)]
    /\ UNCHANGED <<pc, args, opts, angles, dofs, pos, f0, s0, n0, cur, absent, bs, ab, sl>>

NextDof == CallSystemAtDof

SpecDof == InitDof /\ [][NextDof]_vars

---------------------------------------------------------------------------
(* bislerp called directly, on None and on the exactly representable       *)
(* rotations, at t = 0, 1/2 and 1                                          *)

Times == {<<0, 1>>, <<1, 2>>, <<1, 1>>}

InitBislerp ==
    /\ Idle
    /\ ab = NoSolve /\ sl = NoMarkers
    /\ sd = NoCall
    /\ bs \in [done : {FALSE}, Qa : {None} \cup MatrixFrames, Qb : {None} \cup MatrixFrames,
                t : Times, sa : {1, -1}, sb : {1, -1}]

CallBislerp ==
    /\ bs.done = FALSE
    /\ LET r == bislerp_run(bs.Qa, bs.Qb, bs.t)
           qa == from_rotation_matrix(bs.Qa.M, bs.sa)
           qb == from_rotation_matrix(bs.Qb.M, bs.sb)
           quats == r.converted /\ bs.Qa.kind = "matrix" /\ bs.Qb.kind = "matrix"
       IN  bs' = [done |-> TRUE, Qa |-> bs.Qa, Qb |-> bs.Qb, t |-> bs.t,
                  sa |-> bs.sa, sb |-> bs.sb,
                  ret |-> r.ret, converted |-> r.converted,
                  qb |-> IF quats THEN qb ELSE << >>,
                  quat_array |-> IF quats THEN quat_array(qa) ELSE << >>,
                  qm |-> IF quats THEN select_qm(qa, qb) ELSE << >>]
    /\ UNCHANGED <<pc, args, opts, angles, dofs, pos, f0, s0, n0, cur, absent, sd, ab, sl>>

NextBislerp == CallBislerp

SpecBislerp == InitBislerp /\ [][NextBislerp]_vars

---------------------------------------------------------------------------
(* apex_to_base: the solver retry loop, lines 598-609, and the rest of the *)
(* function                                                                *)

\* the preconditioner of the first attempt (line 601)
first_pc == "amg"

\* the list the generator pcs is fed from, in the reverse order
pcs_list_reversed == <<"default", "petsc_amg">>

\* the list the generator pcs is fed from (line 602)
pcs_list == <<"petsc_amg", "default">>

Preconditioners == {first_pc} \cup {pcs_list[i] : i \in 1..Len(pcs_list)}

\* what df.solve does on one attempt: it returns, raises RuntimeError, or
\* raises an exception of another class
Outcomes == {"ok", "RuntimeError", "Error"}

\* the call: what df.solve does with each preconditioner on the system of
\* this mesh, and what the second solve (gmres, line 639) does
InitSolve ==
    /\ Idle
    /\ sd = NoCall /\ bs = NoBislerp /\ sl = NoMarkers
    /\ ab \in [pc : {"loop"}, plan : [Preconditioners -> Outcomes],
                final : {"ok", "RuntimeError"},
                preconditioner : {first_pc}, pcs : {pcs_list},
                attempts : {<< >>}, exc : {"none"}]

\* lines 603-609: one turn of `while 1`.  The try block calls solve; the
\* else clause breaks; the handler of RuntimeError takes the next
\* preconditioner from pcs, and next(pcs) on the exhausted generator raises
\* StopIteration, which leaves the function; an exception of another class
\* is not caught.
Attempt ==
    /\ ab.pc = "loop"
    /\ LET outcome == ab.plan[ab.preconditioner]
           tried == Append(ab.attempts,
                           [preconditioner |-> ab.preconditioner, outcome |-> outcome])
       IN  ab' = IF outcome = "ok" THEN
                     [ab EXCEPT !.attempts = tried, !.pc = "solved"]
                 ELSE IF outcome = "RuntimeError" THEN
                     IF ab.pcs = << >> THEN
                         [ab EXCEPT !.attempts = tried, !.pc = "error",
                                    !.exc = "StopIteration"]
                     ELSE
                         [ab EXCEPT !.attempts = tried,
                                    !.preconditioner = Head(ab.pcs),
                                    !.pcs = Tail(ab.pcs)]
                 ELSE [ab EXCEPT !.attempts = tried, !.pc = "error", !.exc = outcome]
    /\ UNCHANGED <<pc, args, opts, angles, dofs, pos, f0, s0, n0, cur, absent, sd, bs, sl>>

\* lines 611-644: the apex is located and the second problem solved
LocateAndSolve ==
    /\ ab.pc = "solved"
    /\ ab' = IF ab.final = "ok" THEN [ab EXCEPT !.pc = "done"]
             ELSE [ab EXCEPT !.pc = "error", !.exc = ab.final]
    /\ UNCHANGED <<pc, args, opts, angles, dofs, pos, f0, s0, n0, cur, absent, sd, bs, sl>>

NextSolve == Attempt \/ LocateAndSolve

SpecSolve == InitSolve /\ [][NextSolve]_vars

---------------------------------------------------------------------------
(* scalar_laplacians: the markers, lines 719-736 *)

\* the largest marker value of a call
MaxMarker == 22

\* marker values: one below the first RV candidate, and the candidates
MarkerVals == 19..MaxMarker

\* the keys a markers dictionary may hold: the required ones, "rv", and one
\* more boundary
MarkerKeys == {"base", "lv", "epi", "rv", "mv"}

\* keys of line 723
keys == <<"base", "lv", "epi">>

\* the first candidate for the RV marker (line 732)
rv_value_init == 20

\* utils.default_markers(), as the docstring of scalar_laplacians gives it
default_markers == [base |-> 10, rv |-> 20, lv |-> 30, epi |-> 40]

\* markers.values()
values(markers) == {markers[k] : k \in DOMAIN markers}

\* the test of the while loop made on the values of keys only
in_values_of_keys(v, markers) ==
    \E i \in 1..Len(keys) : keys[i] \in DOMAIN markers /\ markers[keys[i]] = v

\* rv_value in markers.values() (line 734)
in_values(v, markers) == v \in values(markers)

\* markers[key] = v
set_item(markers, key, v) ==
    [k \in DOMAIN markers \cup {key} |-> IF k = key THEN v ELSE markers[k]]

\* the call: markers is None, or a dictionary over some of the keys
InitMarkers ==
    /\ Idle
    /\ sd = NoCall /\ bs = NoBislerp /\ ab = NoSolve
    /\ \E given \in BOOLEAN :
         \E m \in UNION {[S -> MarkerVals] : S \in SUBSET MarkerKeys} :
            /\ ~given => m = << >>
            /\ sl = [pc |-> "start", given |-> given, arg |-> m, markers |-> m,
                     rv_value |-> 0]

\* lines 719-732: the default, the assertions on keys, the test for "rv"
CheckMarkers ==
    /\ sl.pc = "start"
    /\ sl' = IF ~sl.given THEN
                 [sl EXCEPT !.markers = default_markers, !.pc = "done"]
             ELSE IF \E i \in 1..Len(keys) : keys[i] \notin DOMAIN sl.markers THEN
                 [sl EXCEPT !.pc = "error"]
             ELSE IF "rv" \notin DOMAIN sl.markers THEN
                 [sl EXCEPT !.rv_value = rv_value_init, !.pc = "search"]
             ELSE [sl EXCEPT !.pc = "done"]
    /\ UNCHANGED <<pc, args, opts, angles, dofs, pos, f0, s0, n0, cur, absent, sd, bs, ab>>

\* lines 734-735: one turn of the while loop
NextValue ==
    /\ sl.pc = "search"
    /\ in_values(sl.rv_value, sl.markers)
    /\ sl' = [sl EXCEPT !.rv_value = sl.rv_value + 1]
    /\ UNCHANGED <<pc, args, opts, angles, dofs, pos, f0, s0, n0, cur, absent, sd, bs, ab>>

\* line 736, after the loop: markers["rv"] = rv_value
SetRv ==
    /\ sl.pc = "search"
    /\ ~in_values(sl.rv_value, sl.markers)
    /\ sl' = [sl EXCEPT !.markers = set_item(sl.markers, "rv", sl.rv_value),
                        !.pc = "done"]
    /\ UNCHANGED <<pc, args, opts, angles, dofs, pos, f0, s0, n0, cur, absent, sd, bs, ab>>

NextMarkers == CheckMarkers \/ NextValue \/ SetRv

SpecMarkers == InitMarkers /\ [][NextMarkers]_vars

---------------------------------------------------------------------------
(* Claims *)

\* every array of the call has the length the others imply
WellFormed(a) == \A k \in DeltaKeys : a.delta[k] = 0

\* the loop has run an iteration to its end
Processed == pc \in {"loop", "done"} /\ cur # NoCur

\* the three vector indices of a tuple of dofs
Triple(d) == {d[1], d[2], d[3]}

\* C1: called without dofs on n >= 1 sample points, the loop visits every
\* sample point index 0..n-1 exactly once, and the vector indices of
\* distinct points are pairwise disjoint and lie in 0..3n-1.
C1_StandardDofsVisitEveryPointOnce ==
    (pc = "done" /\ args.dofs = "None" /\ WellFormed(args)) =>
        /\ \A s \in 0..(args.n - 1) :
              Cardinality({k \in 1..Len(dofs) : dofs[k][4] = s}) = 1
        /\ \A k \in 1..Len(dofs) : Triple(dofs[k]) \subseteq 0..(3 * args.n - 1)
        /\ \A k, l \in 1..Len(dofs) :
              k # l => Triple(dofs[k]) \cap Triple(dofs[l]) = {}

\* the LV counterpart of an optional angle
Counterpart(k) ==
    IF k \in {"alpha_endo_rv", "alpha_endo_sept"} THEN "alpha_endo_lv"
    ELSE IF k \in {"alpha_epi_rv", "alpha_epi_sept"} THEN "alpha_epi_lv"
    ELSE IF k \in {"beta_endo_rv", "beta_endo_sept"} THEN "beta_endo_lv"
    ELSE "beta_epi_lv"

\* C2: each of the eight RV and septum angle options that is not supplied
\* resolves, whatever the other seven are, to its own LV counterpart.
C2_UnsetOptionTakesItsLvCounterpart ==
    pc # "start" =>
        \A k \in OptKeys : opts[k] = {} => angles[k] = LvAngles[Counterpart(k)]

\* C3 as claimed: the angle set of a processed point is the LV set when
\* lv > tol and rv <= tol, the RV set when lv <= tol and rv > tol, the septum
\* set when both exceed tol, the LV set otherwise, also at lv = tol, rv = tol.
C3_ClassifyInclusive ==
    Processed =>
        cur.sel = IF cur.lv > tol_classify /\ cur.rv <= tol_classify THEN lv_set(angles)
                  ELSE IF cur.lv <= tol_classify /\ cur.rv > tol_classify THEN rv_set(angles)
                  ELSE IF cur.lv > tol_classify /\ cur.rv > tol_classify THEN sept_set(angles)
                  ELSE lv_set(angles)

\* C3 as amended: the angle set of a processed point is the septum set when
\* lv > tol and rv > tol, the RV set when lv < tol (strictly) and rv > tol,
\* and the LV set in every other case: lv > tol with rv <= tol, both at most
\* tol, and lv exactly tol with rv > tol.
C3_ClassifyStrict ==
    Processed =>
        /\ (cur.rv > tol_classify /\ cur.lv > tol_classify) => cur.sel = sept_set(angles)
        /\ (cur.rv > tol_classify /\ cur.lv < tol_classify) => cur.sel = rv_set(angles)
        /\ (cur.rv > tol_classify /\ cur.lv = tol_classify) => cur.sel = lv_set(angles)
        /\ cur.rv <= tol_classify => cur.sel = lv_set(angles)

\* a point with lv exactly tol and rv above it got the LV set, which differs
\* from the RV set of the call
C3_Witness ==
    /\ Processed
    /\ cur.lv = tol_classify /\ cur.rv > tol_classify
    /\ cur.sel = lv_set(angles)
    /\ lv_set(angles) # rv_set(angles)

\* C4 as claimed: the rule engine decides with 1e-7 whether a frame is
\* defined, so a processed point with a scalar above 1e-7 has a frame.
C4_FrameDefinedAboveDefaultTol ==
    Processed =>
        ((cur.lv > tol_default \/ cur.rv > tol_default \/ cur.epi > tol_default)
            => cur.Q_fiber # None)

\* C4 as amended: the 1e-3 tolerance is also the one the rule engine gets,
\* so a processed point has a frame exactly when one of its scalars exceeds
\* 1e-3, and a scalar between 1e-7 and 1e-3 contributes no frame: with lv
\* and rv at most 1e-3 the frame is the epicardial one alone.
C4_FrameDefinedAboveClassifyTol ==
    Processed =>
        /\ cur.Q_fiber = None <=>
              (cur.lv <= tol_classify /\ cur.rv <= tol_classify /\ cur.epi <= tol_classify)
        /\ (cur.lv <= tol_classify /\ cur.rv <= tol_classify /\ cur.epi > tol_classify)
              => (cur.Q_fiber.kind = "orient" /\ cur.Q_fiber.Q.v.arr = "epi_gradient")

\* a point whose lv lies between 1e-7 and 1e-3, the others 0: no frame
C4_Witness ==
    /\ Processed
    /\ cur.lv > tol_default /\ cur.lv < tol_classify
    /\ cur.rv = 0 /\ cur.epi = 0
    /\ cur.Q_fiber = None

\* C5: when system_at_dof returns None for a sample point, the entries of
\* that point in the three outputs stay zero, no error is raised, and the
\* loop goes on to every remaining sample point; entries are written only
\* for points whose frame is present.
C5_AbsentPointStaysZero ==
    (WellFormed(args) /\ pc # "start") =>
        /\ pc # "error"
        /\ \A k \in absent : \A i \in Triple(dofs[k]) :
              f0[i] = Zero /\ s0[i] = Zero /\ n0[i] = Zero
        /\ \A i \in DOMAIN f0 :
              (f0[i] # Zero \/ s0[i] # Zero \/ n0[i] # Zero) =>
                  \E k \in 1..(pos - 1) : k \notin absent /\ i \in Triple(dofs[k])
        /\ pc = "done" =>
              \A s \in 0..(args.n - 1) : \E k \in 1..Len(dofs) : dofs[k][4] = s

\* C6: system_at_dof returns None exactly when none of lv, rv and epi
\* exceeds the tolerance, and otherwise the frame
\* bislerp(bislerp(Q_lv, Q_rv, depth), Q_epi, epi), each of Q_lv, Q_rv, Q_epi
\* present only if its scalar exceeds the tolerance: the frame of the one
\* scalar that exceeds it when there is only one.
C6_AbsentIffNoScalarExceedsTol ==
    sd.done =>
        LET a == lv_set(resolve_angles(NoOpts, LvAngles))
            Q_lv == Q_lv_of(sd.lv, sd.rv, g_lv, g_ab, a.alpha_endo, a.beta_endo, sd.tol)
            Q_rv == Q_rv_of(sd.lv, sd.rv, g_rv, g_ab, a.alpha_endo, a.beta_endo, sd.tol)
            Q_epi == Q_epi_of(sd.epi, g_epi, g_ab, a.alpha_endo, a.alpha_epi,
                              a.beta_endo, a.beta_epi, sd.tol)
            n_present == Cardinality({q \in {"lv", "rv", "epi"} :
                            \/ q = "lv" /\ sd.lv > sd.tol
                            \/ q = "rv" /\ sd.rv > sd.tol
                            \/ q = "epi" /\ sd.epi > sd.tol})
        IN  /\ sd.ret = None <=> (sd.lv <= sd.tol /\ sd.rv <= sd.tol /\ sd.epi <= sd.tol)
            /\ (n_present = 1 /\ sd.lv > sd.tol) => sd.ret = Q_lv
            /\ (n_present = 1 /\ sd.rv > sd.tol) => sd.ret = Q_rv
            /\ (n_present = 1 /\ sd.epi > sd.tol) => sd.ret = Q_epi
            /\ n_present >= 2 => sd.ret.kind = "bislerp"

\* the call with lv = rv = epi = 0 returned None
C6_Witness ==
    sd.done /\ sd.lv = 0 /\ sd.rv = 0 /\ sd.epi = 0 /\ sd.ret = None

\* C7: for every t, bislerp(None, None, t) is None, bislerp(Qa, None, t) is
\* Qa and bislerp(None, Qb, t) is Qb, and none of the three calls reaches
\* the quaternion conversion or the interpolation.
C7_AbsentFramePassesTheOtherThrough ==
    bs.done =>
        /\ (bs.Qa = None /\ bs.Qb = None) => (bs.ret = None /\ ~bs.converted)
        /\ (bs.Qa # None /\ bs.Qb = None) => (bs.ret = bs.Qa /\ ~bs.converted)
        /\ (bs.Qa = None /\ bs.Qb # None) => (bs.ret = bs.Qb /\ ~bs.converted)

\* bislerp(Qa, None, 1/2) returned Qa
C7_Witness ==
    bs.done /\ bs.Qa # None /\ bs.Qb = None /\ bs.t = <<1, 2>> /\ bs.ret = bs.Qa

\* the trace of transpose(A) . B: 1 + 2 cos of the angle between A and B,
\* times QNorm^4
TraceOfQuotient(A, B) ==
    LET term(i, j) == A[i][j] * B[i][j]
    IN  term(1, 1) + term(1, 2) + term(1, 3) + term(2, 1) + term(2, 2) + term(2, 3)
        + term(3, 1) + term(3, 2) + term(3, 3)

\* both frames are rotations, at least 90 degrees apart
FarApart ==
    /\ bs.done /\ bs.Qa # None /\ bs.Qb # None
    /\ TraceOfQuotient(bs.Qa.M, bs.Qb.M) <= QNorm * QNorm * QNorm * QNorm

\* M with two of its columns negated: M . diag(c1, c2, c3)
FlipColumns(M, c) == [i \in 1..3 |-> [j \in 1..3 |-> M[i][j] * c[j]]]

\* M and M followed by a rotation by 180 degrees about one of its own axes
AxisFlips(M) ==
    {FlipColumns(M, c) : c \in {<<1, 1, 1>>, <<1, -1, -1>>, <<-1, 1, -1>>, <<-1, -1, 1>>}}

C9_MismatchFailsBeforeAnyPoint ==
    ~WellFormed(args) => (pc # "done" /\ cur = NoCur)

\* C10: every supplied RV or septum angle option, the value 0 included, is
\* used as given; the LV value replaces only an option that is not supplied.
C10_SuppliedOptionIsKept ==
    pc # "start" =>
        \A k \in OptKeys : opts[k] # {} => angles[k] \in opts[k]

\* qa, -qa and the products u * qa and -(u * qa) for u = i, j, k
LeftProducts(qa) ==
    {qa, qneg(qa)} \cup
    UNION {{qmul(u, qa), qneg(qmul(u, qa))} : u \in {quat_i, quat_j, quat_k}}

\* qa, -qa and the products qa * u and -(qa * u) for u = i, j, k
RightProducts(qa) ==
    {qa, qneg(qa)} \cup
    UNION {{qmul(qa, u), qneg(qmul(qa, u))} : u \in {quat_i, quat_j, quat_k}}

\* bislerp went past its early returns: both frames are present
BothPresent == bs.done /\ bs.converted

\* the candidates bislerp built, as a set
Candidates == {bs.quat_array[i] : i \in 1..Len(bs.quat_array)}

\* qm is a candidate, and no candidate has a larger absolute dot product
\* with qb
QmIsMaximal ==
    /\ bs.qm \in Candidates
    /\ \A c \in Candidates : Abs(dot(c, bs.qb)) <= Abs(dot(bs.qm, bs.qb))

\* C11 as claimed: with both frames present, the candidates are exactly the
\* 8 quaternions qa, -qa and the left products i * qa, j * qa, k * qa with
\* their negations, and qm is a candidate whose absolute dot product with qb
\* is maximal.
C11_CandidatesAreLeftProducts ==
    BothPresent =>
        /\ Cardinality(Candidates) = 8
        /\ Candidates = LeftProducts(from_rotation_matrix(bs.Qa.M, 1))
        /\ QmIsMaximal

\* C11 as amended: with both frames present, the candidates are exactly the
\* 8 quaternions qa, -qa and the right products qa * i, qa * j, qa * k with
\* their negations: the quaternions of Qa and of Qa with two of its columns
\* negated.  qm is a candidate whose absolute dot product with qb is
\* maximal.
C11_CandidatesAreRightProducts ==
    BothPresent =>
        /\ Cardinality(Candidates) = 8
        /\ Candidates = RightProducts(from_rotation_matrix(bs.Qa.M, 1))
        /\ {as_rotation_matrix(c) : c \in Candidates} = AxisFlips(bs.Qa.M)
        /\ QmIsMaximal

\* both frames present, Qa a rotation whose left and right products differ,
\* and qm one of the products, not qa or -qa
C11_Witness ==
    /\ BothPresent
    /\ LeftProducts(bs.quat_array[1]) # RightProducts(bs.quat_array[1])
    /\ bs.qm \notin {bs.quat_array[1], bs.quat_array[2]}
    /\ bs.qm \in RightProducts(bs.quat_array[1])

\* the calls axis(u, v) a frame term was built from
RECURSIVE AxisCalls(_)
AxisCalls(Q) ==
    IF Q.kind = "axis" THEN {Q}
    ELSE IF Q.kind = "orient" THEN AxisCalls(Q.Q)
    ELSE IF Q.kind = "bislerp" THEN AxisCalls(Q.Qa) \cup AxisCalls(Q.Qb)
    ELSE {}

\* the three angle sets of the call differ from one another
DistinctSets ==
    Cardinality({lv_set(angles), rv_set(angles), sept_set(angles)}) = 3

\* C12: in a call without rv_scalar and rv_gradient the RV scalar is zero at
\* every sample point, the angle set selected is the LV one, never the RV or
\* the septum one, the frame of the point holds no RV frame, and axis is
\* never called with the RV gradient, which is zero.
C12_NoRvFieldsNoRvFrame ==
    (Processed /\ ~args.rv) =>
        /\ cur.rv = 0
        /\ cur.sel = lv_set(angles)
        /\ DistinctSets => cur.sel \notin {rv_set(angles), sept_set(angles)}
        /\ \A c \in AxisCalls(cur.Q_fiber) :
              /\ ~c.v.zero /\ ~c.u.zero
              /\ c.v.arr # "rv_gradient" /\ c.u.arr # "rv_gradient"

\* a point of a call without RV fields, with three different angle sets, lv
\* and epi above the tolerance: its frame is built from the LV and the
\* epicardial gradient
C12_Witness ==
    /\ Processed /\ ~args.rv /\ DistinctSets
    /\ cur.lv > tol_classify /\ cur.epi > tol_classify
    /\ Cardinality(AxisCalls(cur.Q_fiber)) = 2

\* the preconditioners in the order the loop can try them
TryOrder == <<"amg", "petsc_amg", "default">>

\* apex_to_base has left its retry loop
LoopLeft == ab.pc \in {"solved", "done", "error"}

\* C13: the retry loop of apex_to_base terminates.  The attempts made are
\* "amg", "petsc_amg", "default" in that order, at most three; every attempt
\* followed by another one raised RuntimeError; the loop is left at the
\* first attempt that succeeds; when all three raise RuntimeError the
\* function ends with StopIteration from the exhausted generator.  While the
\* loop runs fewer than three attempts have been made and a further attempt
\* can be made, and each attempt adds one to their number.
C13_RetryLoopTerminates ==
    ab.pc # "idle" =>
        LET n == Len(ab.attempts)
        IN  /\ n <= 3
            /\ \A i \in 1..n : ab.attempts[i].preconditioner = TryOrder[i]
            /\ \A i \in 1..(n - 1) : ab.attempts[i].outcome = "RuntimeError"
            /\ ab.pc = "loop" =>
                  /\ n < 3
                  /\ ab.preconditioner = TryOrder[n + 1]
                  /\ \A i \in 1..n : ab.attempts[i].outcome = "RuntimeError"
                  /\ ENABLED Attempt
            /\ ab.pc \in {"solved", "done"} =>
                  (n >= 1 /\ ab.attempts[n].outcome = "ok")
            /\ (LoopLeft /\ ab.attempts[n].outcome = "RuntimeError") =>
                  (n = 3 /\ ab.pc = "error" /\ ab.exc = "StopIteration")
            /\ (\A q \in Preconditioners : ab.plan[q] = "RuntimeError") =>
                  (LoopLeft <=> n = 3)
            /\ LoopLeft => n >= 1

\* all three preconditioners were tried, each raised RuntimeError, and the
\* function ended with StopIteration
C13_Witness ==
    /\ ab.pc = "error" /\ ab.exc = "StopIteration"
    /\ Len(ab.attempts) = 3
    /\ \A i \in 1..3 : ab.attempts[i].outcome = "RuntimeError"

\* the call supplied markers with "base", "lv" and "epi" and without "rv"
LvGeometry ==
    /\ sl.pc # "idle" /\ sl.given
    /\ {"base", "lv", "epi"} \subseteq DOMAIN sl.arg
    /\ "rv" \notin DOMAIN sl.arg

\* C14: for markers with "base", "lv" and "epi" and without "rv" the search
\* for the RV value terminates: it runs over no more candidates than there
\* are markers, and can always take its next step.  It adds an "rv" entry
\* whose value is the smallest integer >= 20 that is the value of no other
\* marker, so different from those of "base", "lv" and "epi", and leaves
\* every entry supplied as it was.
C14_RvMarkerIsFreshAndSmallest ==
    LvGeometry =>
        /\ sl.pc # "error"
        /\ sl.pc \in {"start", "search"} => ENABLED NextMarkers
        /\ sl.pc = "search" =>
              /\ sl.markers = sl.arg
              /\ sl.rv_value >= 20
              /\ sl.rv_value - 20 <= Cardinality(DOMAIN sl.arg)
              /\ \A v \in 20..(sl.rv_value - 1) : \E k \in DOMAIN sl.arg : sl.arg[k] = v
        /\ sl.pc = "done" =>
              /\ DOMAIN sl.markers = DOMAIN sl.arg \cup {"rv"}
              /\ \A k \in DOMAIN sl.arg : sl.markers[k] = sl.arg[k]
              /\ sl.markers["rv"] >= 20
              /\ \A k \in DOMAIN sl.arg : sl.arg[k] # sl.markers["rv"]
              /\ sl.markers["rv"] \notin {sl.arg["base"], sl.arg["lv"], sl.arg["epi"]}
              /\ \A v \in 20..(sl.markers["rv"] - 1) : \E k \in DOMAIN sl.arg : sl.arg[k] = v

\* base, lv and epi hold 20, 21 and 22: the search ends at 23
C14_Witness ==
    /\ LvGeometry /\ sl.pc = "done"
    /\ {sl.arg["base"], sl.arg["lv"], sl.arg["epi"]} = {20, 21, 22}
    /\ sl.markers["rv"] = 23

=============================================================================
